---- MODULE Spec2Model ----
(***************************************************************************)
(* Review-analysis pipeline of HappyCustomersAI                           *)
(* (backend/app/agents/review_agent.py): the LangGraph workflow           *)
(* analyze_sentiment -> categorize_issues -> determine_urgency ->         *)
(* decide_email_action -> [generate_email_content] -> END, driven by      *)
(* analyze_review, with the structured-output LLM chain and the SMTP      *)
(* server as the environment.                                             *)
(*                                                                         *)
(* Conventions: Python None is the string None; a float is held in        *)
(* tenths (0.0 is 0, 0.9 is 9); an optional argument is a sequence of     *)
(* length 0 (omitted) or 1; a Python list is a sequence; an f-string      *)
(* error message is held by its fixed prefix.                              *)
(***************************************************************************)
EXTENDS Integers, Sequences, FiniteSets, TLC

VARIABLES
    args,    \* arguments of the analyze_review call
    pc,      \* position of analyze_review: entry, node, await_llm, END, returned, raised
    node,    \* graph node the orchestrator is at
    state,   \* the ReviewAnalysisState threaded through the nodes
    result,  \* the dict analyze_review returns
    log,     \* history: <<"start", n>> / <<"end", n>> events of the nodes
    calls,   \* history: the chain.ainvoke calls and their outcomes
    sends    \* history: the send_email calls, what the mail server would answer
             \* and what the call gave back (True, False or TypeError)

\* one process_excel_reviews call (app/services/file_service.py)
VARIABLES
    rows,             \* the rows of the parsed DataFrame
    process_with_ai,  \* argument of process_excel_reviews
    gateway,          \* "down": every chain call fails during the upload; "up": any answer
    bpc,              \* position of process_excel_reviews: idle, row, find_one, done
    bidx,             \* index of the row the loop is at (0-based, as in iterrows)
    results,          \* the results dict
    attempts,         \* history: the analyze_review calls made for the rows
    examined          \* history: the row numbers the loop has taken up, in order

\* several analyze_review calls on one event loop
VARIABLES
    inv,             \* per invocation: args, pc, node, handle and what its calls gave back
    states,          \* the ReviewAnalysisState dicts, by handle
    llm_instance,    \* module global _llm_instance: <<>> is None, <<k>> the k-th built
    graph_instance,  \* module global _graph_instance
    built,           \* history: number of LLM handles and of graphs constructed
    handed,          \* history: the instances get_llm and get_review_analysis_graph returned
    interleaved      \* history: a node finished while another invocation was suspended

\* create_and_process_review calls on one event loop (app/services/review_service.py)
VARIABLES
    store,  \* the reviews collection: the documents, in insertion order
    svc     \* per call: arguments, position and what it has computed

pipeline_vars == <<args, pc, node, state, result, log, calls, sends>>

batch_vars == <<rows, process_with_ai, gateway, bpc, bidx, results, attempts, examined>>

concurrent_vars == <<inv, states, llm_instance, graph_instance, built, handed, interleaved>>

service_vars == <<store, svc>>

vars == <<args, pc, node, state, result, log, calls, sends,
          rows, process_with_ai, gateway, bpc, bidx, results, attempts, examined,
          inv, states, llm_instance, graph_instance, built, handed, interleaved,
          store, svc>>

----------------------------------------------------------------------------
(* Bounds of the environment *)

MaxCats == 2      \* longest categories list the chain returns
MaxIssues == 1    \* longest key_issues list the chain returns
MaxLog == 12      \* capacity of each history sequence

SeqUpTo(S, n) == UNION {[1..k -> S] : k \in 0..n}

Emit(l, e) == IF Len(l) < MaxLog THEN Append(l, e) ELSE l

Range(s) == {s[i] : i \in 1..Len(s)}

None == "None"
END == "__end__"

----------------------------------------------------------------------------
(* Vocabularies of app/models/review.py and of the prompt *)

SentimentType == {"positive", "negative", "neutral"}

UrgencyLevel == {"low", "medium", "high", "critical"}

ReviewCategory == {"quality", "service", "pricing", "delivery", "usability",
                   "communication", "performance", "support", "experience",
                   "other"}

EmailTemplateTags == {"critical_response", "quality_concern", "service_concern",
                      "delivery_concern", "support_concern", "general_concern"}

ResultFields == {"sentiment", "sentiment_score", "urgency_level", "categories",
                 "key_issues", "should_send_email", "email_sent",
                 "type_of_email_template", "analysis_complete", "error"}

----------------------------------------------------------------------------
(* What the environment can hand back.  The output parser validates the   *)
(* LLM text against the pydantic models only: sentiment and urgency_level *)
(* are any str, confidence any float, categories and key_issues any       *)
(* List[str].                                                              *)

GatewaySentiments == SentimentType \cup {"mixed"}
GatewayScores == {0, 9}
GatewayUrgencies == UrgencyLevel \cup {"urgent"}
GatewayCategoryTags == {"quality", "service", "delivery", "support", "other", "billing"}
GatewayIssues == {"cold food"}

SentimentAnalysis == [sentiment : GatewaySentiments, confidence : GatewayScores]

IssueCategorizationAnalysis ==
    [categories : SeqUpTo(GatewayCategoryTags, MaxCats),
     key_issues : SeqUpTo(GatewayIssues, MaxIssues)]

UrgencyAnalysis == [urgency_level : GatewayUrgencies, reasoning : {"because"}]

GeneratedEmail == [subject : {"We are sorry"}, body : {"Dear customer"}]

SmtpOutcomes == {"delivered", "refused"}

(* Arguments of analyze_review *)
ReviewTexts == {"The food was cold"}
CustomerNames == {"Ann"}
CustomerEmails == {"ann@example.com"}
Ratings == {<<>>, <<1>>, <<5>>}

----------------------------------------------------------------------------
(* The workflow graph built by create_review_analysis_graph *)

entry_point == "analyze_sentiment"

\* variant: the two middle nodes wired in the other order
edges_swapped ==
    [analyze_sentiment |-> "determine_urgency",
     determine_urgency |-> "categorize_issues",
     categorize_issues |-> "decide_email_action",
     generate_email_content |-> END]

\* variant: the last node wired back to the entry point instead of END
edges_loop ==
    [analyze_sentiment |-> "categorize_issues",
     categorize_issues |-> "determine_urgency",
     determine_urgency |-> "decide_email_action",
     generate_email_content |-> "analyze_sentiment"]

edges ==
    [analyze_sentiment |-> "categorize_issues",
     categorize_issues |-> "determine_urgency",
     determine_urgency |-> "decide_email_action",
     generate_email_content |-> END]

\* variant: the branch always takes the email edge
should_generate_email_always(st) == "generate_email_content"

should_generate_email(st) ==
    IF st.should_send_email THEN "generate_email_content" ELSE END

\* variant: fail fast, a recorded error ends the run
next_node_halt_on_error(n, st) ==
    IF st.error # "" THEN END
    ELSE IF n = "decide_email_action" THEN should_generate_email(st)
    ELSE edges[n]

\* node the orchestrator moves to once node n has returned state st
next_node(n, st) ==
    IF n = "decide_email_action" THEN should_generate_email(st) ELSE edges[n]

\* variant: the email node lets its exceptions through
catches_not_email(n) == n # "generate_email_content"

\* every node body is wrapped in try / except Exception
catches(n) == TRUE

----------------------------------------------------------------------------
(* analyze_review: construction of the state and projection of the result *)

rating_or_0(r) == IF r = <<>> THEN 0 ELSE IF r[1] = 0 THEN 0 ELSE r[1]

initial_state(a) ==
    [review_text |-> a.review_text,
     customer_name |-> a.customer_name,
     customer_email |-> a.customer_email,
     rating |-> rating_or_0(a.rating),
     sentiment |-> "",
     sentiment_score |-> 0,
     urgency_level |-> "",
     categories |-> <<>>,
     key_issues |-> <<>>,
     should_send_email |-> FALSE,
     email_sent |-> FALSE,
     type_of_email_template |-> "",
     analysis_complete |-> FALSE,
     error |-> ""]

project_result(st) ==
    [sentiment |-> st.sentiment,
     sentiment_score |-> st.sentiment_score,
     urgency_level |-> st.urgency_level,
     categories |-> st.categories,
     key_issues |-> st.key_issues,
     should_send_email |-> st.should_send_email,
     email_sent |-> st.email_sent,
     type_of_email_template |-> st.type_of_email_template,
     analysis_complete |-> st.analysis_complete,
     error |-> st.error]

----------------------------------------------------------------------------
(* Node bodies: the state each node returns *)

sentiment_ok(st, a) ==
    [st EXCEPT !.sentiment = a.sentiment, !.sentiment_score = a.confidence]

sentiment_except(st) ==
    [st EXCEPT !.error = "Sentiment analysis error",
               !.sentiment = "neutral",
               !.sentiment_score = 0]

\* variant: a successful categorization clears the error
categorize_ok_clears(st, a) ==
    [st EXCEPT !.categories = a.categories, !.key_issues = a.key_issues,
               !.error = ""]

categorize_ok(st, a) ==
    [st EXCEPT !.categories = a.categories, !.key_issues = a.key_issues]

\* variant: the fallback also resets the sentiment
categorize_except_clobber(st) ==
    [st EXCEPT !.error = "Categorization error",
               !.sentiment = "neutral",
               !.categories = <<"other">>,
               !.key_issues = <<>>]

\* variant: the fallback categories list is empty
categorize_except_empty(st) ==
    [st EXCEPT !.error = "Categorization error",
               !.categories = <<>>,
               !.key_issues = <<>>]

categorize_except(st) ==
    [st EXCEPT !.error = "Categorization error",
               !.categories = <<"other">>,
               !.key_issues = <<>>]

urgency_ok(st, a) == [st EXCEPT !.urgency_level = a.urgency_level]

\* variant: the fallback urgency is low
urgency_except_low(st) ==
    [st EXCEPT !.error = "Urgency determination error",
               !.urgency_level = "low"]

urgency_except(st) ==
    [st EXCEPT !.error = "Urgency determination error",
               !.urgency_level = "medium"]

\* variant: the two conditions joined by or
should_send_or(st) ==
    st.sentiment = "negative" \/ st.urgency_level \in {"medium", "high", "critical"}

should_send(st) ==
    st.sentiment = "negative" /\ st.urgency_level \in {"medium", "high", "critical"}

\* variant: service tested before quality
template_for_service_first(st) ==
    IF st.urgency_level = "critical" THEN "critical_response"
    ELSE IF "service" \in Range(st.categories) THEN "service_concern"
    ELSE IF "quality" \in Range(st.categories) THEN "quality_concern"
    ELSE IF "delivery" \in Range(st.categories) THEN "delivery_concern"
    ELSE IF "support" \in Range(st.categories) THEN "support_concern"
    ELSE "general_concern"

template_for(st) ==
    IF st.urgency_level = "critical" THEN "critical_response"
    ELSE IF "quality" \in Range(st.categories) THEN "quality_concern"
    ELSE IF "service" \in Range(st.categories) THEN "service_concern"
    ELSE IF "delivery" \in Range(st.categories) THEN "delivery_concern"
    ELSE IF "support" \in Range(st.categories) THEN "support_concern"
    ELSE "general_concern"

decide_not_required(st) ==
    [st EXCEPT !.type_of_email_template = None, !.analysis_complete = TRUE]

\* variant: the template is chosen whatever the decision
decide_body_template_always(st) ==
    [st EXCEPT !.should_send_email = should_send(st),
               !.type_of_email_template = template_for(st),
               !.analysis_complete = IF should_send(st) THEN @ ELSE TRUE]

\* variant: analysis_complete is set on both branches
decide_body_complete_always(st) ==
    LET st1 == [st EXCEPT !.should_send_email = should_send(st),
                          !.analysis_complete = TRUE]
    IN  IF st1.should_send_email
        THEN [st1 EXCEPT !.type_of_email_template = template_for(st1)]
        ELSE decide_not_required(st1)

decide_body(st) ==
    LET st1 == [st EXCEPT !.should_send_email = should_send(st)]
    IN  IF st1.should_send_email
        THEN [st1 EXCEPT !.type_of_email_template = template_for(st1)]
        ELSE decide_not_required(st1)

(* send_email as called from generate_email_content.  Python binds the    *)
(* keyword arguments before the coroutine body runs: a required parameter *)
(* that the call does not supply raises TypeError at the call site.       *)
(* Inside, every exception of rendering or SMTP is turned into False.     *)
send_email_required == {"to_email", "customer_name", "template_name", "key_issues"}

send_email_call_kwargs == {"to_email", "subject", "body"}

send_email(kwargs, smtp) ==
    IF ~(send_email_required \subseteq kwargs) THEN "TypeError"
    ELSE IF smtp = "delivered" THEN "True"
    ELSE "False"

\* variant: the except clause reports the email as sent
email_except_sent(st) ==
    [st EXCEPT !.error = "Email generation error", !.email_sent = TRUE]

email_except(st) ==
    [st EXCEPT !.error = "Email generation error", !.email_sent = FALSE]

email_ok(st, sent) == [st EXCEPT !.email_sent = (sent = "True")]

\* variant: analysis_complete is set inside the try body only
email_finally_skipped(st) == st

email_finally(st) == [st EXCEPT !.analysis_complete = TRUE]

\* state the node returns once the awaited send_email call gave back sent
email_after_send(st, sent) ==
    IF sent = "TypeError"
    THEN email_finally(email_except(st))
    ELSE email_finally(email_ok(st, sent))

----------------------------------------------------------------------------
(* Orchestration steps shared by the nodes *)

\* node n hands state st back to the graph, which follows the edge out of n
NodeReturns(n, st) ==
    /\ state' = st
    /\ node' = next_node(n, st)
    /\ pc' = IF next_node(n, st) = END THEN "END" ELSE "node"
    /\ log' = Emit(log, <<"end", n>>)

\* an exception leaves node n and propagates out of graph.ainvoke
NodeRaises(n) ==
    /\ pc' = "raised"
    /\ UNCHANGED <<state, node, log>>

\* the try body of node n raised: the except clause builds st, if it applies
NodeExcept(n, st) == IF catches(n) THEN NodeReturns(n, st) ELSE NodeRaises(n)

\* node n reaches its await on chain.ainvoke
NodeStarts(n) ==
    /\ pc' = "await_llm"
    /\ log' = Emit(log, <<"start", n>>)
    /\ UNCHANGED <<args, node, state, result, calls, sends>>
    /\ UNCHANGED batch_vars
    /\ UNCHANGED concurrent_vars
    /\ UNCHANGED service_vars

Answered(n, a) == [site |-> n, ok |-> TRUE, val |-> a]

Failed(n) == [site |-> n, ok |-> FALSE, val |-> <<>>]

----------------------------------------------------------------------------
(* Initial state and actions *)

Init ==
    /\ args \in [review_text : ReviewTexts, customer_name : CustomerNames,
                 customer_email : CustomerEmails, rating : Ratings]
    /\ pc = "entry"
    /\ node = ""
    /\ state = <<>>
    /\ result = <<>>
    /\ log = <<>>
    /\ calls = <<>>
    /\ sends = <<>>
    /\ rows = <<>>
    /\ process_with_ai = FALSE
    /\ gateway = "up"
    /\ bpc = "idle"
    /\ bidx = 0
    /\ results = <<>>
    /\ attempts = <<>>
    /\ examined = <<>>
    /\ inv = <<>>
    /\ states = <<>>
    /\ llm_instance = <<>>
    /\ graph_instance = <<>>
    /\ built = [llm |-> 0, graph |-> 0]
    /\ handed = [llm |-> {}, graph |-> {}]
    /\ interleaved = FALSE
    /\ store = <<>>
    /\ svc = <<>>

\* analyze_review up to graph.ainvoke(initial_state)
analyze_review_call ==
    /\ pc = "entry"
    /\ state' = initial_state(args)
    /\ node' = entry_point
    /\ pc' = "node"
    /\ UNCHANGED <<args, result, log, calls, sends>>
    /\ UNCHANGED batch_vars
    /\ UNCHANGED concurrent_vars
    /\ UNCHANGED service_vars

analyze_sentiment_start ==
    /\ pc = "node"
    /\ node = "analyze_sentiment"
    /\ NodeStarts(node)

analyze_sentiment_return ==
    /\ pc = "await_llm"
    /\ node = "analyze_sentiment"
    /\ \/ \E a \in SentimentAnalysis :
            /\ calls' = Emit(calls, Answered(node, a))
            /\ NodeReturns(node, sentiment_ok(state, a))
       \/ /\ calls' = Emit(calls, Failed(node))
          /\ NodeExcept(node, sentiment_except(state))
    /\ UNCHANGED <<args, result, sends>>
    /\ UNCHANGED batch_vars
    /\ UNCHANGED concurrent_vars
    /\ UNCHANGED service_vars

categorize_issues_start ==
    /\ pc = "node"
    /\ node = "categorize_issues"
    /\ NodeStarts(node)

categorize_issues_return ==
    /\ pc = "await_llm"
    /\ node = "categorize_issues"
    /\ \/ \E a \in IssueCategorizationAnalysis :
            /\ calls' = Emit(calls, Answered(node, a))
            /\ NodeReturns(node, categorize_ok(state, a))
       \/ /\ calls' = Emit(calls, Failed(node))
          /\ NodeExcept(node, categorize_except(state))
    /\ UNCHANGED <<args, result, sends>>
    /\ UNCHANGED batch_vars
    /\ UNCHANGED concurrent_vars
    /\ UNCHANGED service_vars

determine_urgency_start ==
    /\ pc = "node"
    /\ node = "determine_urgency"
    /\ NodeStarts(node)

determine_urgency_return ==
    /\ pc = "await_llm"
    /\ node = "determine_urgency"
    /\ \/ \E a \in UrgencyAnalysis :
            /\ calls' = Emit(calls, Answered(node, a))
            /\ NodeReturns(node, urgency_ok(state, a))
       \/ /\ calls' = Emit(calls, Failed(node))
          /\ NodeExcept(node, urgency_except(state))
    /\ UNCHANGED <<args, result, sends>>
    /\ UNCHANGED batch_vars
    /\ UNCHANGED concurrent_vars
    /\ UNCHANGED service_vars

\* no await inside: the node runs in one step
decide_email_action ==
    /\ pc = "node"
    /\ node = "decide_email_action"
    /\ state' = decide_body(state)
    /\ node' = next_node(node, decide_body(state))
    /\ pc' = IF next_node(node, decide_body(state)) = END THEN "END" ELSE "node"
    /\ log' = Emit(Emit(log, <<"start", node>>), <<"end", node>>)
    /\ UNCHANGED <<args, result, calls, sends>>
    /\ UNCHANGED batch_vars
    /\ UNCHANGED concurrent_vars
    /\ UNCHANGED service_vars

generate_email_content_start ==
    /\ pc = "node"
    /\ node = "generate_email_content"
    /\ NodeStarts(node)

\* from the answer of the chain to the end of the node; smtp is what the
\* mail server would answer if send_email got as far as aiosmtplib.send
generate_email_content_return ==
    /\ pc = "await_llm"
    /\ node = "generate_email_content"
    /\ \/ \E a \in GeneratedEmail, smtp \in SmtpOutcomes :
            LET sent == send_email(send_email_call_kwargs, smtp)
            IN  /\ calls' = Emit(calls, Answered(node, a))
                /\ sends' = Emit(sends, [smtp |-> smtp, returned |-> sent])
                /\ IF sent = "TypeError"
                   THEN NodeExcept(node, email_finally(email_except(state)))
                   ELSE NodeReturns(node, email_finally(email_ok(state, sent)))
       \/ /\ calls' = Emit(calls, Failed(node))
          /\ sends' = sends
          /\ NodeExcept(node, email_finally(email_except(state)))
    /\ UNCHANGED <<args, result>>
    /\ UNCHANGED batch_vars
    /\ UNCHANGED concurrent_vars
    /\ UNCHANGED service_vars

\* graph.ainvoke has returned: analyze_review builds the dict it returns
analyze_review_return ==
    /\ pc = "END"
    /\ result' = project_result(state)
    /\ pc' = "returned"
    /\ UNCHANGED <<args, node, state, log, calls, sends>>
    /\ UNCHANGED batch_vars
    /\ UNCHANGED concurrent_vars
    /\ UNCHANGED service_vars

Next ==
    \/ analyze_review_call
    \/ analyze_sentiment_start
    \/ analyze_sentiment_return
    \/ categorize_issues_start
    \/ categorize_issues_return
    \/ determine_urgency_start
    \/ determine_urgency_return
    \/ decide_email_action
    \/ generate_email_content_start
    \/ generate_email_content_return
    \/ analyze_review_return

Spec == Init /\ [][Next]_vars

\* the event loop resumes every coroutine whose awaited call has completed
FairSpec == Spec /\ WF_vars(Next)

TypeOK ==
    /\ pc \in {"entry", "node", "await_llm", "END", "returned", "raised"}
    /\ node \in {"", END} \cup DOMAIN edges \cup {"decide_email_action"}
    /\ Len(log) <= MaxLog

----------------------------------------------------------------------------
(* analyze_review as a function of its arguments and of what its calls    *)
(* give back, for the callers that await it: ok[i] tells whether the i-th *)
(* chain call answered, s, c, u, m are the answers, smtp the mail server. *)

run_pipeline(a, ok, s, c, u, m, smtp) ==
    LET s1 == IF ok[1] THEN sentiment_ok(initial_state(a), s)
              ELSE sentiment_except(initial_state(a))
        s2 == IF ok[2] THEN categorize_ok(s1, c) ELSE categorize_except(s1)
        s3 == IF ok[3] THEN urgency_ok(s2, u) ELSE urgency_except(s2)
        s4 == decide_body(s3)
    IN  IF should_generate_email(s4) = END THEN s4
        ELSE IF ok[4]
             THEN email_after_send(s4, send_email(send_email_call_kwargs, smtp))
             ELSE email_finally(email_except(s4))

\* answers of the chain during an upload
BatchSentimentAnswers == [sentiment : {"positive", "negative"}, confidence : {9}]

BatchCategorizationAnswers == [categories : {<<"quality">>}, key_issues : {<<>>}]

BatchUrgencyAnswers == [urgency_level : {"low", "high"}, reasoning : {"because"}]

OkPatterns(gw) == IF gw = "down" THEN {[i \in 1..4 |-> FALSE]} ELSE [1..4 -> BOOLEAN]

\* the dicts an analyze_review call with arguments a can return
AnalysisResults(a, gw) ==
    {project_result(run_pipeline(a, ok, s, c, u, m, smtp)) :
        ok \in OkPatterns(gw), s \in BatchSentimentAnswers,
        c \in BatchCategorizationAnswers, u \in BatchUrgencyAnswers,
        m \in GeneratedEmail, smtp \in SmtpOutcomes}

\* parameters of analyze_review without a default, and the keywords its
\* two callers pass; a missing one raises TypeError at the call
analyze_review_required == {"review_text", "customer_name", "customer_email"}

service_call_kwargs == {"review_text", "customer_name", "rating"}

file_call_kwargs == {"review_text", "customer_name", "rating"}

analyze_review_binds(kwargs) == analyze_review_required \subseteq kwargs

----------------------------------------------------------------------------
(* Cells of the uploaded sheet.  A text is a sequence of characters.      *)

MaxRows == 2      \* most rows in an uploaded file

NaNCell == [kind |-> "nan", text |-> <<>>]

Text(t) == [kind |-> "text", text |-> t]

nan == <<"n", "a", "n">>

NameCells == {NaNCell, Text(<<"A", "n", "n">>), Text(<<" ">>)}

EmailCells == {NaNCell, Text(<<"a", "@", "b", ".", "i", "o">>), Text(<<"a", "@", "b">>)}

ReviewCells == {NaNCell, Text(<<"c", "o", "l", "d">>)}

RowValues == [customer_name : NameCells, customer_email : EmailCells, review : ReviewCells]

\* str.strip(): leading and trailing blanks removed
strip(t) ==
    LET solid == {k \in 1..Len(t) : t[k] # " "}
    IN  IF solid = {} THEN <<>>
        ELSE SubSeq(t, CHOOSE k \in solid : \A j \in solid : k <= j,
                       CHOOSE k \in solid : \A j \in solid : k >= j)

\* str(row[column]).strip(): an empty cell is NaN and prints as nan
cell_str(c) == IF c.kind = "nan" THEN nan ELSE strip(c.text)

\* the character classes of the pattern, over the characters of the cells
Letters == {"a", "b", "i", "o", "n", "A"}

LocalChars == Letters \cup {".", "_", "%", "+", "-"}

DomainChars == Letters \cup {".", "-"}

\* re.match(r'^[a-zA-Z0-9._%+-]+@[a-zA-Z0-9.-]+\.[a-zA-Z]{2,}$', email)
validate_email(e) ==
    \E i \in 1..Len(e), j \in 1..Len(e) :
        /\ i > 1
        /\ e[i] = "@"
        /\ \A k \in 1..(i - 1) : e[k] \in LocalChars
        /\ j > i + 1
        /\ e[j] = "."
        /\ \A k \in (i + 1)..(j - 1) : e[k] \in DomainChars
        /\ Len(e) - j >= 2
        /\ \A k \in (j + 1)..Len(e) : e[k] \in Letters

\* variant: the format of the email is not checked
validation_error_no_format(r) ==
    LET customer_name == cell_str(r.customer_name)
        customer_email == cell_str(r.customer_email)
        review_text == cell_str(r.review)
    IN  IF customer_name = <<>> \/ customer_name = nan THEN "Missing customer name"
        ELSE IF customer_email = <<>> \/ customer_email = nan THEN "Missing customer email"
        ELSE IF review_text = <<>> \/ review_text = nan THEN "Missing review text"
        ELSE ""

\* why the loop skips row r, or "" when it does not
validation_error(r) ==
    LET customer_name == cell_str(r.customer_name)
        customer_email == cell_str(r.customer_email)
        review_text == cell_str(r.review)
    IN  IF customer_name = <<>> \/ customer_name = nan THEN "Missing customer name"
        ELSE IF customer_email = <<>> \/ customer_email = nan THEN "Missing customer email"
        ELSE IF review_text = <<>> \/ review_text = nan THEN "Missing review text"
        ELSE IF ~validate_email(customer_email) THEN "Invalid email format"
        ELSE ""

initial_results(df) ==
    [total_rows |-> Len(df),
     processed |-> 0,
     errors |-> <<>>,
     reviews_created |-> <<>>,
     sentiment_summary |-> [positive |-> 0, negative |-> 0, neutral |-> 0],
     emails_sent |-> 0]

\* variant: the failure of a row is logged but not listed
add_error_dropped(res, index, msg) == res

\* results['errors'].append(f"Row {index + 1}: {msg}")
add_error(res, index, msg) == [res EXCEPT !.errors = Append(@, <<index + 1, msg>>)]

\* str.lower() on the sentiments the chain gives
lower(t) ==
    IF t = "Negative" THEN "negative"
    ELSE IF t = "Positive" THEN "positive"
    ELSE IF t = "Neutral" THEN "neutral"
    ELSE t

\* lines 196-233 of process_excel_reviews for the row at index, once
\* create_and_process_review has returned; how tells what became of the
\* loop's own analyze_review call: "skipped" (process_with_ai is false),
\* "TypeError", or "returned" with the dict second
row_completed(res, index, r, how, second) ==
    LET review_data ==
            [row |-> index + 1,
             customer_name |-> cell_str(r.customer_name),
             customer_email |-> cell_str(r.customer_email),
             sentiment |-> None,
             email_sent |-> FALSE]
        counted(x, data) ==
            [x EXCEPT !.reviews_created = Append(@, data), !.processed = @ + 1]
    IN  IF how = "skipped" THEN counted(res, review_data)
        ELSE IF how = "TypeError"
        THEN counted(add_error(res, index, "AI processing failed"), review_data)
        ELSE LET sentiment == lower(second.sentiment)
                 res1 == IF sentiment \in DOMAIN res.sentiment_summary
                         THEN [res EXCEPT !.sentiment_summary[sentiment] = @ + 1]
                         ELSE res
                 res2 == IF second.should_send_email
                         THEN [res1 EXCEPT !.emails_sent = @ + 1]
                         ELSE res1
                 data == [review_data EXCEPT
                             !.sentiment = second.sentiment,
                             !.email_sent = second.should_send_email]
             IN  counted(res2, data)

\* round(processed / total_rows * 100, 2), in hundredths of a percent
success_rate(processed, total_rows) ==
    IF total_rows > 0 THEN (20000 * processed + total_rows) \div (2 * total_rows) ELSE 0

get_file_processing_summary(res) ==
    [total_rows |-> res.total_rows,
     processed_successfully |-> res.processed,
     failed_rows |-> Len(res.errors),
     success_rate |-> success_rate(res.processed, res.total_rows),
     sentiment_breakdown |-> res.sentiment_summary,
     emails_sent |-> res.emails_sent,
     errors |-> SubSeq(res.errors, 1, IF Len(res.errors) < 10 THEN Len(res.errors) ELSE 10),
     has_more_errors |-> Len(res.errors) > 10]

----------------------------------------------------------------------------
(* One upload: process_excel_reviews *)

BatchInit ==
    /\ rows \in SeqUpTo(RowValues, MaxRows)
    /\ process_with_ai \in BOOLEAN
    /\ gateway \in {"up", "down"}
    /\ bpc = "entry"
    /\ bidx = 0
    /\ results = <<>>
    /\ attempts = <<>>
    /\ examined = <<>>
    /\ args = <<>>
    /\ pc = "idle"
    /\ node = ""
    /\ state = <<>>
    /\ result = <<>>
    /\ log = <<>>
    /\ calls = <<>>
    /\ sends = <<>>
    /\ inv = <<>>
    /\ states = <<>>
    /\ llm_instance = <<>>
    /\ graph_instance = <<>>
    /\ built = [llm |-> 0, graph |-> 0]
    /\ handed = [llm |-> {}, graph |-> {}]
    /\ interleaved = FALSE
    /\ store = <<>>
    /\ svc = <<>>

\* up to the loop: an empty DataFrame is answered with HTTP 400
process_excel_reviews_call ==
    /\ bpc = "entry"
    /\ IF rows = <<>>
       THEN bpc' = "http_error" /\ results' = results
       ELSE bpc' = "row" /\ results' = initial_results(rows)
    /\ UNCHANGED <<rows, process_with_ai, gateway, bidx, attempts, examined>>
    /\ UNCHANGED pipeline_vars
    /\ UNCHANGED concurrent_vars
    /\ UNCHANGED service_vars

\* one iteration up to the await of Review.find_one inside
\* create_and_process_review, or to the continue of a skipped row
row_validate ==
    /\ bpc = "row"
    /\ bidx < Len(rows)
    /\ IF validation_error(rows[bidx + 1]) # ""
       THEN /\ results' = add_error(results, bidx, validation_error(rows[bidx + 1]))
            /\ bidx' = bidx + 1
            /\ bpc' = "row"
       ELSE /\ bpc' = "find_one"
            /\ UNCHANGED <<results, bidx>>
    /\ examined' = Append(examined, bidx + 1)
    /\ UNCHANGED <<rows, process_with_ai, gateway, attempts>>
    /\ UNCHANGED pipeline_vars
    /\ UNCHANGED concurrent_vars
    /\ UNCHANGED service_vars

\* variant: an exception of a row is re-raised and ends the upload (HTTP 500)
after_row_exception_raise == "http_error"

\* except Exception as row_error: the error is listed and the loop continues
after_row_exception == "row"

\* the analyze_review calls one iteration makes when each of them returns:
\* the one inside create_and_process_review, then the loop's own
analysis_call_sites(with_ai) ==
    <<"create_and_process_review">>
        \o (IF with_ai THEN <<"process_excel_reviews">> ELSE <<>>)

Attempt(index, caller, outcome) == [row |-> index + 1, by |-> caller, outcome |-> outcome]

\* the rest of the iteration: create_and_process_review from the answer of
\* find_one on, then lines 196-238 of the loop.  An exception of
\* create_and_process_review is re-raised and caught by the loop.
row_find_one_return ==
    /\ bpc = "find_one"
    /\ \E db \in {"found", "absent", "raises"} :
         LET r == rows[bidx + 1]
             a == [review_text |-> cell_str(r.review),
                   customer_name |-> cell_str(r.customer_name),
                   customer_email |-> cell_str(r.customer_email),
                   rating |-> <<>>]
         IN  IF db = "raises"
             THEN /\ results' = add_error(results, bidx, "find_one failed")
                  /\ attempts' = attempts
                  /\ bpc' = after_row_exception
             ELSE IF ~analyze_review_binds(service_call_kwargs)
             THEN /\ results' = add_error(results, bidx, "TypeError")
                  /\ attempts' = Append(attempts,
                         Attempt(bidx, analysis_call_sites(process_with_ai)[1], "TypeError"))
                  /\ bpc' = after_row_exception
             ELSE \E first \in AnalysisResults(a, gateway), saved \in BOOLEAN :
                    LET made == Append(attempts,
                                    Attempt(bidx, analysis_call_sites(process_with_ai)[1], "returned"))
                    IN  IF ~saved
                        THEN /\ results' = add_error(results, bidx, "save failed")
                             /\ attempts' = made
                             /\ bpc' = after_row_exception
                        ELSE IF ~process_with_ai
                        THEN /\ results' = row_completed(results, bidx, r, "skipped", first)
                             /\ attempts' = made
                             /\ bpc' = "row"
                        ELSE IF ~analyze_review_binds(file_call_kwargs)
                        THEN /\ results' = row_completed(results, bidx, r, "TypeError", first)
                             /\ attempts' = Append(made,
                                    Attempt(bidx, analysis_call_sites(process_with_ai)[2], "TypeError"))
                             /\ bpc' = "row"
                        ELSE \E second \in AnalysisResults(a, gateway) :
                               /\ results' = row_completed(results, bidx, r, "returned", second)
                               /\ attempts' = Append(made,
                                      Attempt(bidx, analysis_call_sites(process_with_ai)[2], "returned"))
                               /\ bpc' = "row"
    /\ bidx' = bidx + 1
    /\ UNCHANGED <<rows, process_with_ai, gateway, examined>>
    /\ UNCHANGED pipeline_vars
    /\ UNCHANGED concurrent_vars
    /\ UNCHANGED service_vars

\* the loop is over: return results
process_excel_reviews_return ==
    /\ bpc = "row"
    /\ bidx = Len(rows)
    /\ bpc' = "done"
    /\ UNCHANGED <<rows, process_with_ai, gateway, bidx, results, attempts, examined>>
    /\ UNCHANGED pipeline_vars
    /\ UNCHANGED concurrent_vars
    /\ UNCHANGED service_vars

BatchNext ==
    \/ process_excel_reviews_call
    \/ row_validate
    \/ row_find_one_return
    \/ process_excel_reviews_return

BatchSpec == BatchInit /\ [][BatchNext]_vars

----------------------------------------------------------------------------
(* Several analyze_review calls in flight on one event loop.  A coroutine *)
(* runs without interruption from one await to the next, so a step is the *)
(* code between two awaits.  The answers of the chain are the ones of an  *)
(* upload.                                                                 *)

NumInvocations == 2

Invocations == 1..NumInvocations

\* variant: the state dict is a module-level object shared by the calls
state_handle_shared(i) == 1

\* ReviewAnalysisState(...) builds a new dict in every call
state_handle(i) == i

\* variant: the handle is built on every call
is_none_never_cached(x) == TRUE

\* the test `if _llm_instance is None` / `if _graph_instance is None`
is_none(x) == x = <<>>

\* the instance a get_* call returns: the cached one, or the one it builds
got(kind, cached) == IF is_none(cached) THEN <<built[kind] + 1>> ELSE cached

\* bookkeeping of a get_* call that returned
Built(kind, cached) ==
    IF is_none(cached) THEN [built EXCEPT ![kind] = @ + 1] ELSE built

Handed(h, kind, cached) == [h EXCEPT ![kind] = @ \cup {got(kind, cached)}]

\* the state a node returns from its except clause
node_except(n, st) ==
    CASE n = "analyze_sentiment" -> sentiment_except(st)
      [] n = "categorize_issues" -> categorize_except(st)
      [] n = "determine_urgency" -> urgency_except(st)
      [] n = "generate_email_content" -> email_finally(email_except(st))

StageIndex ==
    [analyze_sentiment |-> 1, categorize_issues |-> 2,
     determine_urgency |-> 3, generate_email_content |-> 4]

\* invocation i moves on from node n, which left state st
Moves(i, n, st, rec) ==
    /\ states' = [states EXCEPT ![inv[i].handle] = st]
    /\ inv' = [inv EXCEPT ![i] =
                 [rec EXCEPT !.node = next_node(n, st),
                             !.pc = IF next_node(n, st) = END THEN "END" ELSE "node"]]
    /\ interleaved' = (interleaved \/ \E j \in Invocations \ {i} : inv[j].pc = "await_llm")

ConcurrentInit ==
    /\ inv \in [Invocations ->
                  [args : [review_text : ReviewTexts, customer_name : CustomerNames,
                           customer_email : CustomerEmails, rating : {<<5>>}],
                   pc : {"entry"}, node : {""}, handle : {0},
                   ok : {[k \in 1..4 |-> FALSE]},
                   s : {CHOOSE x \in BatchSentimentAnswers : TRUE},
                   c : {CHOOSE x \in BatchCategorizationAnswers : TRUE},
                   u : {CHOOSE x \in BatchUrgencyAnswers : TRUE},
                   m : {CHOOSE x \in GeneratedEmail : TRUE},
                   smtp : {"refused"},
                   result : {<<>>}]]
    /\ states = [h \in Invocations |-> <<>>]
    /\ llm_instance = <<>>
    /\ graph_instance = <<>>
    /\ built = [llm |-> 0, graph |-> 0]
    /\ handed = [llm |-> {}, graph |-> {}]
    /\ interleaved = FALSE
    /\ store = <<>>
    /\ svc = <<>>
    /\ args = <<>>
    /\ pc = "idle"
    /\ node = ""
    /\ state = <<>>
    /\ result = <<>>
    /\ log = <<>>
    /\ calls = <<>>
    /\ sends = <<>>
    /\ rows = <<>>
    /\ process_with_ai = FALSE
    /\ gateway = "up"
    /\ bpc = "idle"
    /\ bidx = 0
    /\ results = <<>>
    /\ attempts = <<>>
    /\ examined = <<>>

\* analyze_review of invocation i up to the await of graph.ainvoke
concurrent_analyze_review_call(i) ==
    /\ inv[i].pc = "entry"
    /\ states' = [states EXCEPT ![state_handle(i)] = initial_state(inv[i].args)]
    /\ graph_instance' = got("graph", graph_instance)
    /\ built' = Built("graph", graph_instance)
    /\ handed' = Handed(handed, "graph", graph_instance)
    /\ inv' = [inv EXCEPT ![i] = [@ EXCEPT !.pc = "node", !.node = entry_point,
                                            !.handle = state_handle(i)]]
    /\ UNCHANGED <<llm_instance, interleaved>>
    /\ UNCHANGED pipeline_vars
    /\ UNCHANGED batch_vars
    /\ UNCHANGED service_vars

\* a node of invocation i from its first line to the await of chain.ainvoke;
\* building the LLM handle can raise, which the node's except clause catches
concurrent_node_start(i) ==
    /\ inv[i].pc = "node"
    /\ inv[i].node \in DOMAIN edges
    /\ \/ /\ llm_instance' = got("llm", llm_instance)
          /\ built' = Built("llm", llm_instance)
          /\ handed' = Handed(handed, "llm", llm_instance)
          /\ inv' = [inv EXCEPT ![i] = [@ EXCEPT !.pc = "await_llm"]]
          /\ UNCHANGED <<states, interleaved>>
       \/ /\ is_none(llm_instance)
          /\ Moves(i, inv[i].node, node_except(inv[i].node, states[inv[i].handle]), inv[i])
          /\ UNCHANGED <<llm_instance, built, handed>>
    /\ UNCHANGED graph_instance
    /\ UNCHANGED pipeline_vars
    /\ UNCHANGED batch_vars
    /\ UNCHANGED service_vars

\* the awaited chain call of invocation i completes; in the email node the
\* send_email call follows
concurrent_node_return(i) ==
    /\ inv[i].pc = "await_llm"
    /\ LET n == inv[i].node
           st == states[inv[i].handle]
           answered == [inv[i] EXCEPT !.ok[StageIndex[n]] = TRUE]
       IN  \/ /\ n = "analyze_sentiment"
              /\ \E a \in BatchSentimentAnswers :
                    Moves(i, n, sentiment_ok(st, a), [answered EXCEPT !.s = a])
           \/ /\ n = "categorize_issues"
              /\ \E a \in BatchCategorizationAnswers :
                    Moves(i, n, categorize_ok(st, a), [answered EXCEPT !.c = a])
           \/ /\ n = "determine_urgency"
              /\ \E a \in BatchUrgencyAnswers :
                    Moves(i, n, urgency_ok(st, a), [answered EXCEPT !.u = a])
           \/ /\ n = "generate_email_content"
              /\ \E a \in GeneratedEmail, smtp \in SmtpOutcomes :
                    Moves(i, n,
                          email_after_send(st, send_email(send_email_call_kwargs, smtp)),
                          [answered EXCEPT !.m = a, !.smtp = smtp])
           \/ Moves(i, n, node_except(n, st), inv[i])
    /\ UNCHANGED <<llm_instance, graph_instance, built, handed>>
    /\ UNCHANGED pipeline_vars
    /\ UNCHANGED batch_vars
    /\ UNCHANGED service_vars

concurrent_decide_email_action(i) ==
    /\ inv[i].pc = "node"
    /\ inv[i].node = "decide_email_action"
    /\ Moves(i, inv[i].node, decide_body(states[inv[i].handle]), inv[i])
    /\ UNCHANGED <<llm_instance, graph_instance, built, handed>>
    /\ UNCHANGED pipeline_vars
    /\ UNCHANGED batch_vars
    /\ UNCHANGED service_vars

\* graph.ainvoke of invocation i has returned
concurrent_analyze_review_return(i) ==
    /\ inv[i].pc = "END"
    /\ inv' = [inv EXCEPT ![i] = [@ EXCEPT !.pc = "returned",
                                            !.result = project_result(states[inv[i].handle])]]
    /\ UNCHANGED <<states, llm_instance, graph_instance, built, handed, interleaved>>
    /\ UNCHANGED pipeline_vars
    /\ UNCHANGED batch_vars
    /\ UNCHANGED service_vars

ConcurrentNext ==
    \E i \in Invocations :
        \/ concurrent_analyze_review_call(i)
        \/ concurrent_node_start(i)
        \/ concurrent_node_return(i)
        \/ concurrent_decide_email_action(i)
        \/ concurrent_analyze_review_return(i)

ConcurrentSpec == ConcurrentInit /\ [][ConcurrentNext]_vars

----------------------------------------------------------------------------
(* create_and_process_review: find the customer's review, analyse the     *)
(* text, save.  Calls run as coroutines on one event loop and interleave  *)
(* at their awaits: Review.find_one, analyze_review, review.save.          *)

NumCalls == 2

ServiceCalls == 1..NumCalls

ServiceEmails == {"a@b.io", "c@d.io"}

\* the document of the collection for this customer, as an index; 0 is None
find_one(coll, email) ==
    IF \E k \in 1..Len(coll) : coll[k].customer_email = email
    THEN CHOOSE k \in 1..Len(coll) :
            /\ coll[k].customer_email = email
            /\ \A j \in 1..(k - 1) : coll[j].customer_email # email
    ELSE 0

\* variant: the document is always inserted as a new one
save_always_inserts(coll, existing, doc) == Append(coll, doc)

\* review.save(): a document that came from the collection is replaced in
\* place, a new one is inserted
save(coll, existing, doc) ==
    IF existing # 0 THEN [coll EXCEPT ![existing] = doc] ELSE Append(coll, doc)

ServiceInit ==
    /\ store \in {<<>>, <<[customer_email |-> "a@b.io", review_text |-> "old"]>>}
    /\ svc \in [ServiceCalls ->
                  [customer_email : ServiceEmails, review_text : {"new"},
                   pc : {"entry"}, existing : {0}, is_update : {FALSE},
                   outcome : {""}]]
    /\ inv = <<>>
    /\ states = <<>>
    /\ llm_instance = <<>>
    /\ graph_instance = <<>>
    /\ built = [llm |-> 0, graph |-> 0]
    /\ handed = [llm |-> {}, graph |-> {}]
    /\ interleaved = FALSE
    /\ args = <<>>
    /\ pc = "idle"
    /\ node = ""
    /\ state = <<>>
    /\ result = <<>>
    /\ log = <<>>
    /\ calls = <<>>
    /\ sends = <<>>
    /\ rows = <<>>
    /\ process_with_ai = FALSE
    /\ gateway = "up"
    /\ bpc = "idle"
    /\ bidx = 0
    /\ results = <<>>
    /\ attempts = <<>>
    /\ examined = <<>>

\* call c up to its await of Review.find_one
create_and_process_review_call(c) ==
    /\ svc[c].pc = "entry"
    /\ svc' = [svc EXCEPT ![c] = [@ EXCEPT !.pc = "find_one"]]
    /\ UNCHANGED store
    /\ UNCHANGED pipeline_vars
    /\ UNCHANGED batch_vars
    /\ UNCHANGED concurrent_vars

\* the event loop resumes call c at the await it is suspended on; an
\* exception anywhere is logged and re-raised to the caller
create_and_process_review_resume(c) ==
    /\ \/ /\ svc[c].pc = "find_one"
          /\ \/ /\ svc' = [svc EXCEPT ![c] = [@ EXCEPT !.pc = "raised",
                                                       !.outcome = "store error"]]
             \/ LET existing == find_one(store, svc[c].customer_email)
                    found == [svc[c] EXCEPT !.existing = existing,
                                            !.is_update = (existing # 0)]
                IN  IF analyze_review_binds(service_call_kwargs)
                    THEN svc' = [svc EXCEPT ![c] = [found EXCEPT !.pc = "analyze_review"]]
                    ELSE svc' = [svc EXCEPT ![c] = [found EXCEPT !.pc = "raised",
                                                                !.outcome = "TypeError"]]
          /\ UNCHANGED store
       \/ /\ svc[c].pc = "analyze_review"
          /\ svc' = [svc EXCEPT ![c] = [@ EXCEPT !.pc = "save"]]
          /\ UNCHANGED store
       \/ /\ svc[c].pc = "save"
          /\ \/ /\ svc' = [svc EXCEPT ![c] = [@ EXCEPT !.pc = "raised",
                                                       !.outcome = "store error"]]
                /\ UNCHANGED store
             \/ /\ store' = save(store, svc[c].existing,
                                 [customer_email |-> svc[c].customer_email,
                                  review_text |-> svc[c].review_text])
                /\ svc' = [svc EXCEPT ![c] = [@ EXCEPT !.pc = "returned",
                                                       !.outcome = "returned"]]
    /\ UNCHANGED pipeline_vars
    /\ UNCHANGED batch_vars
    /\ UNCHANGED concurrent_vars

ServiceNext ==
    \E c \in ServiceCalls :
        \/ create_and_process_review_call(c)
        \/ create_and_process_review_resume(c)

ServiceSpec == ServiceInit /\ [][ServiceNext]_vars

----------------------------------------------------------------------------
(* Properties of one analyze_review run *)

Returned == pc = "returned"

Nodes == DOMAIN edges \cup {"decide_email_action"}

IsPrefix(s, t) == Len(s) <= Len(t) /\ \A i \in 1..Len(s) : s[i] = t[i]

\* number of times node n has started
Starts(n) == Cardinality({i \in 1..Len(log) : log[i] = <<"start", n>>})

StageExecutions == Cardinality({i \in 1..Len(log) : log[i][1] = "start"})

SomeCallFailed == \E i \in 1..Len(calls) : ~calls[i].ok

AllCallsFailed == calls # <<>> /\ \A i \in 1..Len(calls) : ~calls[i].ok

\* C1: in the result of every run, should_send_email is true exactly when
\* sentiment is negative and urgency_level is medium, high or critical.
C1_ShouldSendIff ==
    Returned =>
        (result.should_send_email <=>
            (result.sentiment = "negative"
             /\ result.urgency_level \in {"medium", "high", "critical"}))

\* a run that sends although the gateway failed on a call
C1_Witness == Returned /\ result.should_send_email /\ SomeCallFailed

\* C2: in the result of every run, the template is one of the six tags
\* exactly when should_send_email is true, and is absent (None) otherwise.
C2_TemplateIffSend ==
    Returned =>
        /\ (result.type_of_email_template \in EmailTemplateTags)
               <=> result.should_send_email
        /\ ~result.should_send_email => result.type_of_email_template = None

C2_Witness ==
    Returned /\ ~result.should_send_email /\ result.type_of_email_template = None

\* C3: when should_send_email is true the template is the first match of
\* critical urgency, quality, service, delivery, support, else general.
C3_TemplatePriority ==
    Returned /\ result.should_send_email =>
        LET u == result.urgency_level
            c == Range(result.categories)
            t == result.type_of_email_template
        IN  /\ u = "critical" => t = "critical_response"
            /\ u # "critical" /\ "quality" \in c => t = "quality_concern"
            /\ u # "critical" /\ "quality" \notin c /\ "service" \in c
                   => t = "service_concern"
            /\ u # "critical" /\ {"quality", "service"} \cap c = {}
                   /\ "delivery" \in c => t = "delivery_concern"
            /\ u # "critical" /\ {"quality", "service", "delivery"} \cap c = {}
                   /\ "support" \in c => t = "support_concern"
            /\ u # "critical"
                   /\ {"quality", "service", "delivery", "support"} \cap c = {}
                   => t = "general_concern"

\* several tags at once, the lower priority one listed first
C3_Witness ==
    /\ Returned
    /\ result.should_send_email
    /\ result.urgency_level = "high"
    /\ result.categories = <<"service", "quality">>
    /\ result.type_of_email_template = "quality_concern"

\* C4: if the gateway fails on every call of a run, the result holds the
\* defaults neutral, 0.0, medium, [other], no key issues, no email, and
\* analysis_complete is true.
C4_AllFailDefaults ==
    Returned /\ AllCallsFailed =>
        /\ result.sentiment = "neutral"
        /\ result.sentiment_score = 0
        /\ result.urgency_level = "medium"
        /\ result.categories = <<"other">>
        /\ result.key_issues = <<>>
        /\ result.should_send_email = FALSE
        /\ result.analysis_complete = TRUE

C4_Witness == Returned /\ AllCallsFailed /\ Len(calls) = 3

\* C5: no failure of the gateway or of the transport propagates out of
\* analyze_review, and what it returns carries all ten result fields.
C5_NeverRaises ==
    /\ pc # "raised"
    /\ Returned => DOMAIN result = ResultFields

\* a run that returned after a gateway failure and a transport exception
C5_Witness ==
    /\ Returned
    /\ SomeCallFailed
    /\ Len(sends) = 1
    /\ sends[1].returned = "TypeError"
    /\ DOMAIN result = ResultFields

\* C6: every run reaches its terminal state, after at most five stage
\* executions.
C6_Terminates == <>Returned /\ [](StageExecutions <= 5)

C6_Witness == Returned /\ StageExecutions = 5

\* C7: in the result of every run sentiment, urgency_level and every
\* element of categories are drawn from their closed vocabularies.
C7_ClosedVocabularies ==
    Returned =>
        /\ result.sentiment \in SentimentType
        /\ result.urgency_level \in UrgencyLevel
        /\ Range(result.categories) \subseteq ReviewCategory

FullOrder ==
    << <<"start", "analyze_sentiment">>, <<"end", "analyze_sentiment">>,
       <<"start", "categorize_issues">>, <<"end", "categorize_issues">>,
       <<"start", "determine_urgency">>, <<"end", "determine_urgency">>,
       <<"start", "decide_email_action">>, <<"end", "decide_email_action">>,
       <<"start", "generate_email_content">>, <<"end", "generate_email_content">> >>

\* C8: the stages start and finish in the fixed order sentiment,
\* categorization, urgency, decision, then email or termination; a stage
\* starts only after the one before it has finished.
C8_FixedOrder ==
    /\ IsPrefix(log, FullOrder)
    /\ Returned => Len(log) \in {8, 10}

C8_Witness == Returned /\ log = FullOrder

\* C9: whatever errors were recorded, each of the first four stages runs
\* exactly once in a run and the email stage at most once.
C9_ExactlyOnce ==
    /\ \A n \in Nodes : Starts(n) <= 1
    /\ Returned =>
           \A n \in Nodes \ {"generate_email_content"} : Starts(n) = 1

\* a run whose first stage failed and that still ran the other three
C9_Witness ==
    /\ Returned
    /\ ~calls[1].ok
    /\ result.error # ""
    /\ \A n \in Nodes \ {"generate_email_content"} : Starts(n) = 1

\* C10: the email stage runs and send_email is called only after the
\* decision set should_send_email; a run whose decision is false ends right
\* after the decision stage with email_sent false.
C10_EmailOnlyWhenDecided ==
    /\ (Starts("generate_email_content") > 0 \/ sends # <<>>) =>
           /\ state.should_send_email
           /\ \E i \in 1..Len(log) : log[i] = <<"end", "decide_email_action">>
    /\ (Returned /\ ~result.should_send_email) =>
           /\ log[Len(log)] = <<"end", "decide_email_action">>
           /\ sends = <<>>
           /\ result.email_sent = FALSE

C10_Witness == Returned /\ ~result.should_send_email /\ Len(log) = 8

\* C11: every run ends with analysis_complete true, on both branches and
\* whatever failed, the email generation and the transport included.
C11_AlwaysComplete == Returned => result.analysis_complete = TRUE

\* a run on the email branch whose send_email call raised
C11_Witness ==
    /\ Returned
    /\ log = FullOrder
    /\ Len(sends) = 1
    /\ sends[1].returned # "True"
    /\ result.analysis_complete

InferenceNodes == <<"analyze_sentiment", "categorize_issues", "determine_urgency">>

\* the inference stages whose chain call failed in this run
FailedInference ==
    {i \in 1..3 : i <= Len(calls) /\ calls[i].site = InferenceNodes[i] /\ ~calls[i].ok}

\* C12: when exactly one of the three inference stages fails, that stage
\* writes its own defaults and sets error, the following stages still run,
\* and the fields of the other two stages hold what the gateway returned.
C12_OneFailureContained ==
    Returned /\ Cardinality(FailedInference) = 1 =>
        /\ result.error # ""
        /\ \A n \in Nodes \ {"generate_email_content"} : Starts(n) = 1
        /\ IF calls[1].ok
           THEN /\ result.sentiment = calls[1].val.sentiment
                /\ result.sentiment_score = calls[1].val.confidence
           ELSE /\ result.sentiment = "neutral"
                /\ result.sentiment_score = 0
        /\ IF calls[2].ok
           THEN /\ result.categories = calls[2].val.categories
                /\ result.key_issues = calls[2].val.key_issues
           ELSE /\ result.categories = <<"other">>
                /\ result.key_issues = <<>>
        /\ IF calls[3].ok
           THEN result.urgency_level = calls[3].val.urgency_level
           ELSE result.urgency_level = "medium"

\* the categorization call alone failed and urgency was still assessed
C12_Witness ==
    /\ Returned
    /\ FailedInference = {2}
    /\ result.categories = <<"other">>
    /\ result.sentiment = "negative"
    /\ result.urgency_level = "high"
    /\ result.error # ""

\* the chain call of the email node answered with a subject and a body
EmailGenerated ==
    \E i \in 1..Len(calls) : calls[i].site = "generate_email_content" /\ calls[i].ok

\* C14: when the email stage runs, the generation succeeds and the mail
\* server delivers, so that the transport confirms, the result has
\* email_sent true.
C14_SentWhenDelivered ==
    (Returned /\ EmailGenerated /\ Len(sends) = 1 /\ sends[1].smtp = "delivered")
        => result.email_sent = TRUE

\* C15: email_sent is true in a result only if send_email was called in
\* that run and gave back True; in every other run it is false.
C15_SentOnlyIfConfirmed ==
    Returned =>
        (result.email_sent =>
            \E i \in 1..Len(sends) : sends[i].returned = "True")

\* a run whose send_email call did not give back True
C15_Witness ==
    /\ Returned
    /\ Len(sends) = 1
    /\ sends[1].returned # "True"
    /\ result.email_sent = FALSE

\* the email node is waiting for its chain call and, after it, send_email
AtEmailAwait == pc = "await_llm" /\ node = "generate_email_content"

InputFields == {"review_text", "customer_name", "customer_email", "rating"}

\* C19: no stage rewrites a field owned by an earlier stage, and no stage
\* changes the caller's inputs.
C19_EarlierFieldsKept ==
    [][pc # "entry" =>
        /\ \A f \in InputFields : state'[f] = state[f]
        /\ node \in {"categorize_issues", "determine_urgency",
                     "decide_email_action", "generate_email_content"} =>
               /\ state'.sentiment = state.sentiment
               /\ state'.sentiment_score = state.sentiment_score
        /\ node \in {"determine_urgency", "decide_email_action",
                     "generate_email_content"} =>
               /\ state'.categories = state.categories
               /\ state'.key_issues = state.key_issues
        /\ node \in {"decide_email_action", "generate_email_content"} =>
               state'.urgency_level = state.urgency_level]_vars

\* every stage has run, a later one on its fallback, and the result still
\* holds the sentiment the chain gave
C19_Witness ==
    /\ Returned
    /\ log = FullOrder
    /\ FailedInference = {2}
    /\ result.sentiment = calls[1].val.sentiment
    /\ result.sentiment_score = 9

\* C20: once analysis_complete is true no stage runs and no field of the
\* state changes.
C20_FrozenOnceComplete ==
    [][(pc # "entry" /\ state.analysis_complete) =>
           (state' = state /\ log' = log)]_vars

\* the run went on to its return after analysis_complete was set
C20_Witness ==
    /\ Returned
    /\ state.analysis_complete
    /\ result = project_result(state)

\* the message each stage writes into error in its except clause
ErrorMessage ==
    [analyze_sentiment |-> "Sentiment analysis error",
     categorize_issues |-> "Categorization error",
     determine_urgency |-> "Urgency determination error",
     generate_email_content |-> "Email generation error"]

\* calls whose stage ended in its except clause: the chain call failed, or
\* it was the email stage and the send_email call after it raised
FailedCalls ==
    {i \in 1..Len(calls) :
        \/ ~calls[i].ok
        \/ /\ calls[i].site = "generate_email_content"
           /\ \E k \in 1..Len(sends) : sends[k].returned = "TypeError"}

\* C21: the error of a result is the message of the failing stage that ran
\* last; a stage that succeeds after a failure leaves error as it was; and
\* error is empty exactly when no stage failed.
C21_LastErrorWins ==
    Returned =>
        IF FailedCalls = {} THEN result.error = ""
        ELSE LET last == CHOOSE i \in FailedCalls : \A j \in FailedCalls : j <= i
             IN  result.error = ErrorMessage[calls[last].site]

\* the first and the third stage failed, the one between them succeeded
C21_Witness ==
    /\ Returned
    /\ FailedCalls = {1, 3}
    /\ calls[2].ok
    /\ result.error = "Urgency determination error"

\* C24: the rating held in the state of a run is absent or an integer in
\* 1..5: whenever it is a number, the number lies in 1..5.
C24_RatingAbsentOrInRange ==
    pc \notin {"entry", "raised"} => (state.rating \in Int => state.rating \in 1..5)

----------------------------------------------------------------------------
(* Properties of concurrent invocations *)

\* what invocation i returns when it runs alone and its calls give back the
\* same answers
AloneResult(i) ==
    project_result(run_pipeline(inv[i].args, inv[i].ok, inv[i].s, inv[i].c,
                                inv[i].u, inv[i].m, inv[i].smtp))

\* C22: under every interleaving at the awaits, each invocation returns
\* what it returns when run alone with the same gateway and transport
\* answers, and no two invocations work on the same state.
C22_Isolated ==
    /\ \A i \in Invocations : inv[i].pc = "returned" => inv[i].result = AloneResult(i)
    /\ \A i, j \in Invocations :
          (i # j /\ inv[i].pc # "entry" /\ inv[j].pc # "entry")
              => inv[i].handle # inv[j].handle

\* two interleaved invocations that ended differently
C22_Witness ==
    /\ \A i \in Invocations : inv[i].pc = "returned"
    /\ interleaved
    /\ inv[1].result.sentiment = "negative"
    /\ inv[1].result.should_send_email
    /\ inv[2].result.sentiment = "neutral"
    /\ inv[2].result.error # ""

\* C23: the LLM handle and the compiled graph are each built at most once,
\* and every get_llm and get_review_analysis_graph call returns that one
\* instance.
C23_BuiltOnce ==
    /\ built.llm <= 1
    /\ built.graph <= 1
    /\ Cardinality(handed.llm) <= 1
    /\ Cardinality(handed.graph) <= 1

\* every invocation has fetched both, interleaved with the others
C23_Witness ==
    /\ \A i \in Invocations : inv[i].pc = "returned" /\ inv[i].ok[3]
    /\ interleaved
    /\ built = [llm |-> 1, graph |-> 1]
    /\ handed = [llm |-> {<<1>>}, graph |-> {<<1>>}]

----------------------------------------------------------------------------
(* Properties of the review store *)

ServiceDone(c) == svc[c].pc \in {"returned", "raised"}

\* C25: the store holds at most one review per customer_email, and a call
\* for an email that already has a review updates it (is_update true)
\* instead of creating a second one.
C25_UpsertByEmail ==
    /\ \A i, j \in 1..Len(store) :
          store[i].customer_email = store[j].customer_email => i = j
    /\ \A c \in ServiceCalls :
          (ServiceDone(c) /\ svc[c].existing # 0 /\ svc[c].outcome # "store error")
              => /\ svc[c].outcome = "returned"
                 /\ svc[c].is_update
                 /\ store[svc[c].existing].review_text = svc[c].review_text

----------------------------------------------------------------------------
(* Properties of one upload *)

BatchDone == bpc = "done"

\* rows that pass the checks of the loop
ValidRows == {i \in 1..Len(rows) : validation_error(rows[i]) = ""}

\* rows for which create_and_process_review got as far as its analyze_review call
AnalysedRows == {attempts[k].row : k \in 1..Len(attempts)}

\* rows given up because the document store raised
StoreFailedRows ==
    {results.errors[k][1] : k \in {j \in 1..Len(results.errors) :
        results.errors[j][2] \in {"find_one failed", "save failed"}}}

CreatedRows == {results.reviews_created[k].row : k \in 1..Len(results.reviews_created)}

\* C18: a row whose analysis falls back to defaults and carries an error
\* (here: the gateway is down for the whole upload) is still counted as
\* processed and listed in reviews_created.
C18_DegradedRowsProcessed ==
    (BatchDone /\ gateway = "down") =>
        /\ (AnalysedRows \ StoreFailedRows) \subseteq CreatedRows
        /\ results.processed = Cardinality(CreatedRows)

\* row numbers listed in errors
ErrorRows == {results.errors[k][1] : k \in 1..Len(results.errors)}

\* C26: a failure while handling a row never aborts the upload: the rows
\* are taken up once each, in order, and the function returns results with
\* total_rows equal to the number of rows.
C26_BatchNeverAborts ==
    /\ bpc = "http_error" => rows = <<>>
    /\ \A k \in 1..Len(examined) : examined[k] = k
    /\ BatchDone => /\ Len(examined) = Len(rows)
                    /\ results.total_rows = Len(rows)

\* a skipped row followed by a row whose processing raised
C26_Witness ==
    /\ BatchDone
    /\ examined = <<1, 2>>
    /\ results.errors = << <<1, "Invalid email format">>, <<2, "TypeError">> >>
    /\ results.total_rows = 2

\* a cell without content: empty in the sheet, or blanks only
MissingCell(c) == c.kind = "nan" \/ \A k \in 1..Len(c.text) : c.text[k] = " "

\* a row the loop must not process
InvalidRow(r) ==
    \/ MissingCell(r.customer_name)
    \/ MissingCell(r.customer_email)
    \/ MissingCell(r.review)
    \/ ~validate_email(strip(r.customer_email.text))

\* C27: a row with a missing name, email or review text or with an invalid
\* email is not passed to create_and_process_review or analyze_review; it
\* adds exactly one entry to errors and changes nothing else of results.
C27_InvalidRowsOnlyListed ==
    [][(bpc = "row" /\ bidx < Len(rows) /\ InvalidRow(rows[bidx + 1])) =>
          /\ bpc' = "row"
          /\ attempts' = attempts
          /\ Len(results'.errors) = Len(results.errors) + 1
          /\ results'.errors[Len(results'.errors)][1] = bidx + 1
          /\ results' = [results EXCEPT !.errors = results'.errors]]_vars

\* the upload of one row with an invalid email is over
C27_Witness ==
    /\ BatchDone
    /\ Len(rows) = 1
    /\ rows[1].customer_email = Text(<<"a", "@", "b">>)
    /\ ~MissingCell(rows[1].customer_name)
    /\ results.errors = << <<1, "Invalid email format">> >>
    /\ results.processed = 0
    /\ results.reviews_created = <<>>
    /\ attempts = <<>>

\* number of entries of errors that name row i
ErrorEntries(i) == Cardinality({k \in 1..Len(results.errors) : results.errors[k][1] = i})

\* number of entries of reviews_created that name row i
CreatedEntries(i) ==
    Cardinality({k \in 1..Len(results.reviews_created) : results.reviews_created[k].row = i})

\* C28: at the end of an upload every row is counted in processed or by
\* exactly one entry of errors, never both, so that in the summary
\* processed_successfully + failed_rows = total_rows.
C28_ProcessedFailedPartition ==
    BatchDone =>
        /\ \A i \in 1..Len(rows) : CreatedEntries(i) + ErrorEntries(i) = 1
        /\ results.processed = Len(results.reviews_created)
        /\ LET summary == get_file_processing_summary(results)
           IN  summary.processed_successfully + summary.failed_rows = summary.total_rows

\* an upload of a skipped row and of a row whose processing raised
C28_Witness ==
    /\ BatchDone
    /\ Len(rows) = 2
    /\ results.errors[1][2] = "TypeError"
    /\ results.errors[2][2] = "Missing review text"
    /\ get_file_processing_summary(results).failed_rows = 2
    /\ get_file_processing_summary(results).processed_successfully = 0

\* the arguments the analysis of row r is (to be) called with
RowArgs(r) ==
    [review_text |-> cell_str(r.review),
     customer_name |-> cell_str(r.customer_name),
     customer_email |-> cell_str(r.customer_email),
     rating |-> <<>>]

====
